---- MODULE Spec2Model ----
(***************************************************************************)
(* Model of dashboard_app.py: a Streamlit script that discovers leagues    *)
(* under a base directory, loads one analysis CSV per selected league      *)
(* through a memoised loader, merges them, orders the columns, renders a   *)
(* highlighted table and a summary.  One run of the script is one render;  *)
(* the load cache is the only state that survives from render to render.   *)
(***************************************************************************)
EXTENDS Integers, Sequences, FiniteSets, TLC

VARIABLES
    disk,               \* the file system: [dirs, files], fixed for the session
    cache,              \* st.cache_data store of load_csv: path -> cache entry
    heap,               \* live DataFrame objects: object id -> table
    diskReads,          \* path -> number of pd.read_csv calls made on it
    loads,              \* path -> number of successful returns of load_csv
    lastLoad,           \* the latest load_csv call: path, outcome, table returned
    pc,                 \* position of the running script
    available_leagues,  \* ordered mapping, a sequence of <<name, path>>
    selected_leagues,   \* sidebar multiselect, in selection order
    analysis_type,      \* "Stagione" or "Giornata"
    selected_outcomes,  \* sidebar multiselect, in selection order
    idx,                \* position of the merge loop in selected_leagues
    df,                 \* object id bound to `df` in the merge loop (0: none)
    dfs,                \* object ids collected by the merge loop
    data,               \* the combined table (a value; NoTable before concat)
    warnings,           \* leagues a st.warning was emitted for in this render
    attempts,           \* leagues load_csv was called for in this render
    output,             \* what the render displayed
    fnIn,               \* input of the function applied on its own
    fnOut               \* its result

vars == <<disk, cache, heap, diskReads, loads, lastLoad, pc, available_leagues,
          selected_leagues, analysis_type, selected_outcomes, idx, df, dfs, data,
          warnings, attempts, output, fnIn, fnOut>>

----------------------------------------------------------------------------
(* Bounds *)

MaxLeagues == 2      \* directory names the session's base directory may hold
MaxDirNames == 4     \* directory names the catalog specification draws from
MaxSelected == 2     \* longest outcome selection given to a function on its own
MaxCols == 6         \* most columns of a table given to the Column Orderer
MaxRows == 3         \* most rows of a table given to the formatter and aggregator
MaxReads == 2        \* a render starts only while no path was parsed more often

----------------------------------------------------------------------------
(* Generic helpers *)

Range(s) == {s[i] : i \in DOMAIN s}

IsInjective(s) == \A i, j \in DOMAIN s : s[i] = s[j] => i = j

\* a list comprehension with a condition: [x for x in s if x in keep]
RECURSIVE FilterSeq(_, _)
FilterSeq(s, keep) ==
    IF s = <<>> THEN <<>>
    ELSE (IF Head(s) \in keep THEN <<Head(s)>> ELSE <<>>) \o FilterSeq(Tail(s), keep)

\* ordered selections without repetition, as a multiselect widget returns them
OrderedSelections(S, maxLen) ==
    {s \in UNION {[1..n -> S] : n \in 0..maxLen} : IsInjective(s)}

\* str.endswith
EndsWith(s, suf) ==
    /\ Len(s) >= Len(suf)
    /\ SubSeq(s, Len(s) - Len(suf) + 1, Len(s)) = suf

RECURSIVE SumSeq(_)
SumSeq(s) == IF s = <<>> THEN 0 ELSE Head(s) + SumSeq(Tail(s))

----------------------------------------------------------------------------
(* The file system and the League Catalog Resolver *)

BASE_ANALYSIS_PATH == <<"data">>

STAGIONI == "analisi_stagioni.csv"
GIORNATE == "analisi_giornate.csv"

\* directory names, in no particular order; a bound selects a prefix
NamePool == <<"B", "A", "BA", "AB", "C", "CA">>

\* the code points of the characters of each name (Python compares str by them)
CodePoints ==
    [n \in Range(NamePool) |->
        CASE n = "A"  -> <<65>>
          [] n = "B"  -> <<66>>
          [] n = "C"  -> <<67>>
          [] n = "AB" -> <<65, 66>>
          [] n = "BA" -> <<66, 65>>
          [] n = "CA" -> <<67, 65>>]

RECURSIVE SeqLess(_, _)
SeqLess(a, b) ==
    IF b = <<>> THEN FALSE
    ELSE IF a = <<>> THEN TRUE
    ELSE IF Head(a) # Head(b) THEN Head(a) < Head(b)
    ELSE SeqLess(Tail(a), Tail(b))

\* str.__lt__ on directory names
StrLess(a, b) == SeqLess(CodePoints[a], CodePoints[b])

\* Path: `/`, .name, .parent
Join(path, name) == Append(path, name)
Name(path) == path[Len(path)]
Parent(path) == SubSeq(path, 1, Len(path) - 1)

\* Path.__lt__ compares the parts in turn; sorted() is applied to children of
\* one directory, which differ in the last part only
PathLess(p, q) == StrLess(Name(p), Name(q))

\* sorted() on a collection of distinct paths
RECURSIVE SortedPaths(_)
SortedPaths(S) ==
    IF S = {} THEN <<>>
    ELSE LET m == CHOOSE p \in S : \A q \in S \ {p} : PathLess(p, q)
         IN <<m>> \o SortedPaths(S \ {m})

\* [f for f in base_path.iterdir() if f.is_dir()]
Subfolders(d, base_path) == {Join(base_path, n) : n \in d.dirs}

\* base_path.glob("*.csv"): the direct entries whose name ends in .csv
GlobCsv(d, base_path) ==
    {f \in d.files : Parent(f) = base_path /\ EndsWith(Name(f), ".csv")}

\* the mapping league name -> path, as the insertion-ordered sequence of its items
get_available_leagues_csvFirst(d, base_path) ==
    IF GlobCsv(d, base_path) # {} THEN << <<"default", base_path>> >>
    ELSE LET sorted == SortedPaths(Subfolders(d, base_path))
         IN [i \in 1..Len(sorted) |-> <<Name(sorted[i]), sorted[i]>>]

get_available_leagues(d, base_path) ==
    LET subfolders == Subfolders(d, base_path) IN
    IF subfolders # {}
    THEN LET sorted == SortedPaths(subfolders)
         IN [i \in 1..Len(sorted) |-> <<Name(sorted[i]), sorted[i]>>]
    ELSE IF GlobCsv(d, base_path) # {}
         THEN << <<"default", base_path>> >>
         ELSE <<>>

\* dict lookups on the ordered mapping
Keys(m) == [i \in 1..Len(m) |-> m[i][1]]
Lookup(m, k) == m[CHOOSE i \in 1..Len(m) : m[i][1] = k][2]

----------------------------------------------------------------------------
(* Tables (DataFrames).  A table is [cols, rows]: the column names in order *)
(* and the rows, each a function from the column names to a value.  The     *)
(* values of a *_percentage column are thousandths of a percent, so 33.333  *)
(* is 33333 and a value with two decimals is a multiple of 10.              *)

NaN == -1                       \* the missing value

NoTable == [cols |-> <<>>, rows |-> <<>>]

\* DataFrame.empty: some axis has length 0
IsEmpty(t) == Len(t.cols) = 0 \/ Len(t.rows) = 0

\* (a variant that leaves an existing column alone)
SetColumn_keepExisting(t, col, v) ==
    IF col \in Range(t.cols) THEN t
    ELSE [cols |-> Append(t.cols, col),
          rows |-> [r \in 1..Len(t.rows) |->
                      [c \in Range(t.cols) \cup {col} |->
                          IF c = col THEN v ELSE t.rows[r][c]]]]

\* df[col] = scalar: overwrites the column, or appends it as the last one
SetColumn(t, col, v) ==
    LET cols2 == IF col \in Range(t.cols) THEN t.cols ELSE Append(t.cols, col)
    IN [cols |-> cols2,
        rows |-> [r \in 1..Len(t.rows) |->
                    [c \in Range(cols2) |-> IF c = col THEN v ELSE t.rows[r][c]]]]

\* the union of the columns of the tables, in order of first appearance
RECURSIVE UnionCols(_)
UnionCols(ts) ==
    IF ts = <<>> THEN <<>>
    ELSE LET rest == UnionCols(SubSeq(ts, 1, Len(ts) - 1))
             last == ts[Len(ts)].cols
         IN rest \o FilterSeq(last, Range(last) \ Range(rest))

\* pd.concat(ts, ignore_index=True): rows stacked, absent cells missing
RECURSIVE StackRows(_, _)
StackRows(ts, cols) ==
    IF ts = <<>> THEN <<>>
    ELSE LET t == Head(ts)
         IN [r \in 1..Len(t.rows) |->
                [c \in Range(cols) |->
                    IF c \in Range(t.cols) THEN t.rows[r][c] ELSE NaN]]
            \o StackRows(Tail(ts), cols)

Concat(ts) == [cols |-> UnionCols(ts), rows |-> StackRows(ts, UnionCols(ts))]

\* data[cols]: the columns named, in the order named
SelectColumns(t, cols) ==
    [cols |-> cols,
     rows |-> [r \in 1..Len(t.rows) |-> [c \in Range(cols) |-> t.rows[r][c]]]]

\* the values of one column, top to bottom, and those that are not missing
Column(t, col) == [r \in 1..Len(t.rows) |-> t.rows[r][col]]
Present(t, col) == FilterSeq(Column(t, col), Range(Column(t, col)) \ {NaN})

\* round(2) on a value in thousandths: to the nearest hundredth, half to even
Round2(v) ==
    IF v = NaN THEN NaN
    ELSE LET q == v \div 10
             r == v % 10
         IN IF r < 5 THEN 10 * q
            ELSE IF r > 5 THEN 10 * (q + 1)
            ELSE IF q % 2 = 0 THEN 10 * q ELSE 10 * (q + 1)

\* round(2) on the quotient num/den of thousandths
RoundRatio2(num, den) ==
    LET q == num \div (10 * den)
        twice == 2 * (num - 10 * den * q)       \* twice the remainder
    IN IF twice < 10 * den THEN 10 * q
       ELSE IF twice > 10 * den THEN 10 * (q + 1)
       ELSE IF q % 2 = 0 THEN 10 * q ELSE 10 * (q + 1)

SetMax(S) == CHOOSE m \in S : \A x \in S : x <= m

----------------------------------------------------------------------------
(* Column Orderer, Presentation Formatter, Summary Aggregator *)

OUTCOMES == <<"over_25", "gg", "multigol_2_4", "combo_multigol_ht0_2_ft1_3">>

CountCol(outcome) == outcome \o "_count"
PctCol(outcome) == outcome \o "_percentage"

\* order_cols: identifying columns, then the counts, then the percentages
OrderCols(atype, outcomes) ==
    (IF atype = "Stagione" THEN <<"league", "season">>
                           ELSE <<"league", "season", "round">>)
    \o [i \in 1..Len(outcomes) |-> CountCol(outcomes[i])]
    \o [i \in 1..Len(outcomes) |-> PctCol(outcomes[i])]

\* available_cols + extra_cols
ColumnOrder_extraFirst(cols, atype, outcomes) ==
    LET available_cols == FilterSeq(OrderCols(atype, outcomes), Range(cols))
        extra_cols == FilterSeq(cols, Range(cols) \ Range(available_cols))
    IN extra_cols \o available_cols

ColumnOrder(cols, atype, outcomes) ==
    LET available_cols == FilterSeq(OrderCols(atype, outcomes), Range(cols))
        extra_cols == FilterSeq(cols, Range(cols) \ Range(available_cols))
    IN available_cols \o extra_cols

\* a copy of the table with every *_percentage column rounded to two decimals
format_percentage_columns(t) ==
    [cols |-> t.cols,
     rows |-> [r \in 1..Len(t.rows) |->
                [c \in Range(t.cols) |->
                    IF EndsWith(c, "_percentage") THEN Round2(t.rows[r][c])
                    ELSE t.rows[r][c]]]]

\* highlight_max on the column named s_name of the display table: one flag
\* per row (Series.max skips missing values; a missing value equals nothing)
highlight_max_firstOnly(disp, s_name, outcomes) ==
    IF s_name \in {PctCol(outcomes[i]) : i \in 1..Len(outcomes)}
    THEN LET present == Range(Present(disp, s_name))
         IN [r \in 1..Len(disp.rows) |->
                /\ present # {}
                /\ disp.rows[r][s_name] = SetMax(present)
                /\ \A k \in 1..(r - 1) : disp.rows[k][s_name] # SetMax(present)]
    ELSE [r \in 1..Len(disp.rows) |-> FALSE]

highlight_max(disp, s_name, outcomes) ==
    IF s_name \in {PctCol(outcomes[i]) : i \in 1..Len(outcomes)}
    THEN LET present == Range(Present(disp, s_name))
         IN [r \in 1..Len(disp.rows) |->
                /\ present # {}
                /\ disp.rows[r][s_name] # NaN
                /\ disp.rows[r][s_name] = SetMax(present)]
    ELSE [r \in 1..Len(disp.rows) |-> FALSE]

\* render_table: what is displayed: the info message, or the rounded table
\* with the set of highlighted cells <<row, column>>
render_table(t, outcomes) ==
    IF IsEmpty(t) THEN [kind |-> "info", table |-> NoTable, highlighted |-> {}]
    ELSE LET df_display == format_percentage_columns(t)
         IN [kind |-> "table",
             table |-> df_display,
             highlighted |->
                {cell \in (1..Len(t.rows)) \X Range(t.cols) :
                    highlight_max(df_display, cell[2], outcomes)[cell[1]]}]

\* df[col].mean(): the missing values are skipped; all missing gives NaN
MeanRounded(t, col) ==
    LET present == Present(t, col)
    IN IF present = <<>> THEN NaN
       ELSE RoundRatio2(SumSeq(present), Len(present))

\* the summary: None, or the ordered items <<outcome, mean>> of the Series
None == [none |-> TRUE, items |-> <<>>]

compute_summary_metrics_zeroFill(t, outcomes) ==
    IF IsEmpty(t) THEN None
    ELSE [none |-> outcomes = <<>>,
          items |-> [i \in 1..Len(outcomes) |->
                        <<outcomes[i],
                          IF PctCol(outcomes[i]) \in Range(t.cols)
                          THEN MeanRounded(t, PctCol(outcomes[i])) ELSE 0>>]]

compute_summary_metrics(t, outcomes) ==
    IF IsEmpty(t) THEN None
    ELSE LET have == {o \in Range(outcomes) : PctCol(o) \in Range(t.cols)}
             summaries == FilterSeq(outcomes, have)
         IN IF summaries = <<>> THEN None
            ELSE [none |-> FALSE,
                  items |-> [i \in 1..Len(summaries) |->
                        <<summaries[i], MeanRounded(t, PctCol(summaries[i]))>>]]

----------------------------------------------------------------------------
(* The Tabular Loader and its cache *)

IndexOf(s, x) == CHOOSE i \in 1..Len(s) : s[i] = x

\* a row given by its values in column order
Row(cols, vals) == [c \in Range(cols) |-> vals[IndexOf(cols, c)]]

StagioniCols == <<"season", "total_matches", "over_25_count", "over_25_percentage">>
GiornateCols == <<"round", "extra", "season", "over_25_percentage", "league",
                  "over_25_count">>

\* pd.read_csv(path): the content of the files of the session's file system.
\* Each file differs from the others; the per-season file directly in the
\* base directory has a header and no rows, league A's has a gg column.
pd_read_csv(path) ==
    LET dir == Name(Parent(path))
        k == IF dir = Name(BASE_ANALYSIS_PATH) THEN 0 ELSE SumSeq(CodePoints[dir])
    IN IF Name(path) = STAGIONI
       THEN IF k = 0 THEN [cols |-> StagioniCols, rows |-> <<>>]
            ELSE IF dir = "A"
            THEN [cols |-> Append(StagioniCols, "gg_percentage"),
                  rows |-> <<Row(Append(StagioniCols, "gg_percentage"),
                                 <<2023, 20, 10, 50000, 33333>>),
                             Row(Append(StagioniCols, "gg_percentage"),
                                 <<2024, 30, 12, 40004, 33334>>)>>]
            ELSE [cols |-> StagioniCols,
                  rows |-> <<Row(StagioniCols, <<2023, k, 10, 50000 + k>>)>>]
       ELSE [cols |-> GiornateCols,
             rows |-> <<Row(GiornateCols, <<1, k, 2023, 66667, "csv", 7>>)>>]

\* the smallest object id not in use
Alloc(h) == CHOOSE n \in 1..(Cardinality(DOMAIN h) + 1) :
                /\ n \notin DOMAIN h
                /\ \A m \in 1..(n - 1) : m \in DOMAIN h

\* A cache entry is [ref, table]: a snapshot of the value (ref = 0), or a
\* reference to a live object.  EntryTable is the table an entry stands for.
EntryTable(h, entry) == IF entry.ref = 0 THEN entry.table ELSE h[entry.ref]

\* (a variant that keeps the returned object itself, as st.cache_resource does)
WriteResult_shared(h, obj) == [ref |-> obj, table |-> NoTable]

\* st.cache_data keeps a pickled snapshot of the value returned
WriteResult(h, obj) == [ref |-> 0, table |-> h[obj]]

\* st.cache_data unpickles the entry on a hit: every caller gets a new object
ReadResult(h, entry) ==
    LET new == Alloc(h) IN [heap |-> h @@ (new :> EntryTable(h, entry)), id |-> new]

\* (a variant that returns an empty table for a missing file)
load_csv_emptyOnMissing(c, h, d, path) ==
    IF path \in DOMAIN c
    THEN LET rr == ReadResult(h, c[path])
         IN [raised |-> FALSE, hit |-> TRUE, read |-> FALSE, df |-> rr.id,
             cache |-> c, heap |-> rr.heap]
    ELSE LET new == Alloc(h)
             h1 == h @@ (new :> IF path \in d.files THEN pd_read_csv(path) ELSE NoTable)
         IN [raised |-> FALSE, hit |-> FALSE, read |-> path \in d.files, df |-> new,
             cache |-> c @@ (path :> WriteResult(h1, new)), heap |-> h1]

\* (a variant that never stores what it loads)
load_csv_uncached(c, h, d, path) ==
    IF path \notin d.files
    THEN [raised |-> TRUE, hit |-> FALSE, read |-> FALSE, df |-> 0,
          cache |-> c, heap |-> h]
    ELSE LET new == Alloc(h)
         IN [raised |-> FALSE, hit |-> FALSE, read |-> TRUE, df |-> new,
             cache |-> c, heap |-> h @@ (new :> pd_read_csv(path))]

\* load_csv under @st.cache_data, called with cache c, heap h and disk d:
\* the outcome (raised or the object returned) and the cache and heap after it
load_csv(c, h, d, path) ==
    IF path \in DOMAIN c
    THEN LET rr == ReadResult(h, c[path])
         IN [raised |-> FALSE, hit |-> TRUE, read |-> FALSE, df |-> rr.id,
             cache |-> c, heap |-> rr.heap]
    ELSE IF path \notin d.files
    THEN [raised |-> TRUE, hit |-> FALSE, read |-> FALSE, df |-> 0,
          cache |-> c, heap |-> h]
    ELSE LET new == Alloc(h)
             h1 == h @@ (new :> pd_read_csv(path))
         IN [raised |-> FALSE, hit |-> FALSE, read |-> TRUE, df |-> new,
             cache |-> c @@ (path :> WriteResult(h1, new)), heap |-> h1]

----------------------------------------------------------------------------
(* The session: the script is run again and again over one file system *)

SessionNames == {NamePool[i] : i \in 1..MaxLeagues}

\* the files a directory of the session may hold
FileSets == {{}, {STAGIONI}, {STAGIONI, GIORNATE}}

\* the file systems the session may run on
SessionDisks ==
    {[dirs |-> ds,
      files |-> {Join(BASE_ANALYSIS_PATH, f) : f \in bf}
                \cup UNION {{Join(Join(BASE_ANALYSIS_PATH, n), f) : f \in lf[n]} : n \in ds}] :
        ds \in SUBSET SessionNames, bf \in FileSets, lf \in [SessionNames -> FileSets]}

\* every path load_csv may be called with
AllPaths ==
    {Join(dir, f) : dir \in {BASE_ANALYSIS_PATH}
                        \cup {Join(BASE_ANALYSIS_PATH, n) : n \in Range(NamePool)},
                    f \in {STAGIONI, GIORNATE}}

\* the outcome selections the session's user makes
OutcomeChoices == {<<>>, <<"over_25">>, <<"gg", "over_25">>}

NoOutput == [msg |-> "", ordered |-> FALSE,
             table |-> [kind |-> "none", table |-> NoTable, highlighted |-> {}],
             summaryShown |-> FALSE, summary |-> None,
             total |-> NaN]

NoLoad == [path |-> <<>>, raised |-> FALSE, hit |-> FALSE, first |-> FALSE,
           df |-> 0, table |-> NoTable]

Init ==
    /\ disk \in SessionDisks
    /\ cache = <<>>
    /\ heap = <<>>
    /\ diskReads = [p \in AllPaths |-> 0]
    /\ loads = {}
    /\ lastLoad = NoLoad
    /\ pc = "start"
    /\ available_leagues = <<>>
    /\ selected_leagues = <<>>
    /\ analysis_type = "Stagione"
    /\ selected_outcomes = <<>>
    /\ idx = 1
    /\ df = 0
    /\ dfs = <<>>
    /\ data = NoTable
    /\ warnings = <<>>
    /\ attempts = <<>>
    /\ output = NoOutput
    /\ fnIn = <<>>
    /\ fnOut = <<>>

\* (a variant that goes on without any league)
Resolve_noStop ==
    /\ pc \in {"start", "done", "stopped"}
    /\ \A p \in AllPaths : diskReads[p] <= MaxReads
    /\ heap' = [o \in DOMAIN heap \cap {cache[p].ref : p \in DOMAIN cache} |-> heap[o]]
    /\ available_leagues' = get_available_leagues(disk, BASE_ANALYSIS_PATH)
    /\ selected_leagues' = <<>>
    /\ selected_outcomes' = <<>>
    /\ analysis_type' = "Stagione"
    /\ idx' = 1
    /\ df' = 0
    /\ dfs' = <<>>
    /\ data' = NoTable
    /\ warnings' = <<>>
    /\ attempts' = <<>>
    /\ lastLoad' = NoLoad
    /\ output' = NoOutput
    /\ pc' = "sidebar"
    /\ UNCHANGED <<disk, cache, diskReads, loads, fnIn, fnOut>>

\* lines 100-112: the script runs from the top, at first or because the user
\* touched a widget after the previous run ended; the objects of the previous
\* run are unreachable; the leagues are resolved, and without any the run stops
Resolve ==
    /\ pc \in {"start", "done", "stopped"}
    /\ \A p \in AllPaths : diskReads[p] <= MaxReads
    /\ heap' = [o \in DOMAIN heap \cap {cache[p].ref : p \in DOMAIN cache} |-> heap[o]]
    /\ available_leagues' = get_available_leagues(disk, BASE_ANALYSIS_PATH)
    /\ selected_leagues' = <<>>
    /\ selected_outcomes' = <<>>
    /\ analysis_type' = "Stagione"
    /\ idx' = 1
    /\ df' = 0
    /\ dfs' = <<>>
    /\ data' = NoTable
    /\ warnings' = <<>>
    /\ attempts' = <<>>
    /\ lastLoad' = NoLoad
    /\ IF available_leagues' = <<>>
       THEN /\ output' = [NoOutput EXCEPT !.msg = "no_leagues"]
            /\ pc' = "stopped"
       ELSE /\ output' = NoOutput
            /\ pc' = "sidebar"
    /\ UNCHANGED <<disk, cache, diskReads, loads, fnIn, fnOut>>

\* (a variant that does not test the outcome selection)
Sidebar_noOutcomeCheck ==
    /\ pc = "sidebar"
    /\ \E sl \in OrderedSelections(Range(Keys(available_leagues)), Len(available_leagues)),
          at \in {"Stagione", "Giornata"},
          so \in OutcomeChoices :
        /\ selected_leagues' = sl
        /\ analysis_type' = at
        /\ selected_outcomes' = so
        /\ IF sl = <<>>
           THEN /\ output' = [output EXCEPT !.msg = "select_league"]
                /\ pc' = "stopped"
           ELSE /\ output' = output
                /\ pc' = "load"
    /\ idx' = 1
    /\ dfs' = <<>>
    /\ UNCHANGED <<disk, cache, heap, diskReads, loads, lastLoad, available_leagues,
                   df, data, warnings, attempts, fnIn, fnOut>>

\* lines 114-141: the widgets return the user's selections; an empty selection
\* of leagues or of outcomes stops the run
Sidebar ==
    /\ pc = "sidebar"
    /\ \E sl \in OrderedSelections(Range(Keys(available_leagues)), Len(available_leagues)),
          at \in {"Stagione", "Giornata"},
          so \in OutcomeChoices :
        /\ selected_leagues' = sl
        /\ analysis_type' = at
        /\ selected_outcomes' = so
        /\ IF sl = <<>>
           THEN /\ output' = [output EXCEPT !.msg = "select_league"]
                /\ pc' = "stopped"
           ELSE IF so = <<>>
           THEN /\ output' = [output EXCEPT !.msg = "select_outcome"]
                /\ pc' = "stopped"
           ELSE /\ output' = output
                /\ pc' = "load"
    /\ idx' = 1
    /\ dfs' = <<>>
    /\ UNCHANGED <<disk, cache, heap, diskReads, loads, lastLoad, available_leagues,
                   df, data, warnings, attempts, fnIn, fnOut>>

analysis_file == IF analysis_type = "Stagione" THEN STAGIONI ELSE GIORNATE

\* lines 143-150: one league of the loop: load its file, or warn and go on
LoadStep ==
    /\ pc = "load"
    /\ idx <= Len(selected_leagues)
    /\ LET league == selected_leagues[idx]
           csv_path == Join(Lookup(available_leagues, league), analysis_file)
           res == load_csv(cache, heap, disk, csv_path)
       IN /\ cache' = res.cache
          /\ heap' = res.heap
          /\ attempts' = Append(attempts, league)
          /\ diskReads' = IF res.read
                          THEN [diskReads EXCEPT ![csv_path] = @ + 1] ELSE diskReads
          /\ lastLoad' = [path |-> csv_path, raised |-> res.raised, hit |-> res.hit,
                          first |-> csv_path \notin loads, df |-> res.df,
                          table |-> IF res.raised THEN NoTable ELSE res.heap[res.df]]
          /\ IF res.raised
             THEN /\ warnings' = Append(warnings, league)
                  /\ idx' = idx + 1
                  /\ df' = df
                  /\ loads' = loads
                  /\ pc' = "load"
             ELSE /\ warnings' = warnings
                  /\ idx' = idx
                  /\ df' = res.df
                  /\ loads' = loads \cup {csv_path}
                  /\ pc' = "tag"
    /\ UNCHANGED <<disk, available_leagues, selected_leagues, analysis_type,
                   selected_outcomes, dfs, data, output, fnIn, fnOut>>

\* lines 152-153: df["league"] = league; dfs.append(df)
TagStep ==
    /\ pc = "tag"
    /\ heap' = [heap EXCEPT ![df] = SetColumn(@, "league", selected_leagues[idx])]
    /\ dfs' = Append(dfs, df)
    /\ idx' = idx + 1
    /\ pc' = "load"
    /\ UNCHANGED <<disk, cache, diskReads, loads, lastLoad, available_leagues,
                   selected_leagues, analysis_type, selected_outcomes, df, data,
                   warnings, attempts, output, fnIn, fnOut>>

\* lines 155-159: nothing collected stops the run; otherwise the tables are stacked
ConcatStep ==
    /\ pc = "load"
    /\ idx > Len(selected_leagues)
    /\ IF dfs = <<>>
       THEN /\ output' = [output EXCEPT !.msg = "no_data"]
            /\ data' = data
            /\ pc' = "stopped"
       ELSE /\ output' = output
            /\ data' = Concat([i \in 1..Len(dfs) |-> heap[dfs[i]]])
            /\ pc' = "order"
    /\ UNCHANGED <<disk, cache, heap, diskReads, loads, lastLoad, available_leagues,
                   selected_leagues, analysis_type, selected_outcomes, idx, df, dfs,
                   warnings, attempts, fnIn, fnOut>>

\* lines 161-174: the columns are put in display order
OrderStep ==
    /\ pc = "order"
    /\ data' = SelectColumns(data, ColumnOrder(data.cols, analysis_type, selected_outcomes))
    /\ output' = [output EXCEPT !.ordered = TRUE]
    /\ pc' = "render"
    /\ UNCHANGED <<disk, cache, heap, diskReads, loads, lastLoad, available_leagues,
                   selected_leagues, analysis_type, selected_outcomes, idx, df, dfs,
                   warnings, attempts, fnIn, fnOut>>

\* lines 176-177: the table is displayed
RenderStep ==
    /\ pc = "render"
    /\ output' = [output EXCEPT !.table = render_table(data, selected_outcomes)]
    /\ pc' = "summary"
    /\ UNCHANGED <<disk, cache, heap, diskReads, loads, lastLoad, available_leagues,
                   selected_leagues, analysis_type, selected_outcomes, idx, df, dfs,
                   data, warnings, attempts, fnIn, fnOut>>

\* lines 183-201: the two summary widgets
SummaryStep ==
    /\ pc = "summary"
    /\ output' = [output EXCEPT
                    !.summaryShown = TRUE,
                    !.summary = compute_summary_metrics(data, selected_outcomes),
                    !.total = IF "total_matches" \in Range(data.cols)
                              THEN SumSeq(Present(data, "total_matches")) ELSE NaN]
    /\ pc' = "done"
    /\ UNCHANGED <<disk, cache, heap, diskReads, loads, lastLoad, available_leagues,
                   selected_leagues, analysis_type, selected_outcomes, idx, df, dfs,
                   data, warnings, attempts, fnIn, fnOut>>

Next ==
    \/ Resolve
    \/ Sidebar
    \/ LoadStep
    \/ TagStep
    \/ ConcatStep
    \/ OrderStep
    \/ RenderStep
    \/ SummaryStep

Spec == Init /\ [][Next]_vars

----------------------------------------------------------------------------
(* Properties of the session *)

\* the file the merge asks for on behalf of a league of the current run
FileOf(league) == Join(Lookup(available_leagues, league), analysis_file)

\* the selected leagues whose file exists, and those whose file is missing
Existing == FilterSeq(selected_leagues,
                      {l \in Range(selected_leagues) : FileOf(l) \in disk.files})
Missing == FilterSeq(selected_leagues,
                     {l \in Range(selected_leagues) : FileOf(l) \notin disk.files})

\* the merge loop of the current run has finished
MergeOver == pc \in {"order", "render", "summary", "done"}
             \/ (pc = "stopped" /\ output.msg = "no_data")

NothingDisplayed ==
    /\ ~output.ordered
    /\ output.table.kind = "none"
    /\ ~output.summaryShown

\* the rows a finished merge must hold: for each league with a file, in
\* selection order, the file's rows in file order, as <<league, row number>>
RECURSIVE ExpectedRows(_)
ExpectedRows(leagues) ==
    IF leagues = <<>> THEN <<>>
    ELSE [r \in 1..Len(pd_read_csv(FileOf(Head(leagues))).rows) |-> <<Head(leagues), r>>]
         \o ExpectedRows(Tail(leagues))

\* row j of the combined table is row `origin` of its file, tagged
RowMatches(j, origin) ==
    LET file == pd_read_csv(FileOf(origin[1]))
        row == data.rows[j]
    IN /\ row["league"] = origin[1]
       /\ \A c \in Range(file.cols) \ {"league"} : row[c] = file.rows[origin[2]][c]
       /\ \A c \in Range(data.cols) \ (Range(file.cols) \cup {"league"}) : row[c] = NaN

\* C2: when the file of at least one selected league exists, the merge does
\* not stop the run: the combined table holds exactly the rows of the files
\* that exist, each tagged with the league it came from, in selection order;
\* one warning is emitted per league whose file is missing, and each selected
\* league is attempted exactly once.
C2_PartialMerge ==
    (MergeOver /\ Existing # <<>>) =>
        /\ pc # "stopped"
        /\ Len(data.rows) = Len(ExpectedRows(Existing))
        /\ \A j \in 1..Len(data.rows) : RowMatches(j, ExpectedRows(Existing)[j])
        /\ warnings = Missing
        /\ attempts = selected_leagues

C2_Witness ==
    /\ pc = "order"
    /\ Len(selected_leagues) = 2
    /\ Len(warnings) = 1
    /\ Len(data.rows) >= 1
    /\ analysis_type = "Giornata"

\* C3: a run that resolves no league, or whose selected leagues have no file
\* at all, stops with a message; it never orders the columns, displays the
\* table or shows the summary.
C3_NoDataStops ==
    /\ (pc # "start" /\ available_leagues = <<>>) =>
            /\ pc = "stopped"
            /\ output.msg = "no_leagues"
            /\ NothingDisplayed
    /\ (pc \notin {"start", "sidebar"} /\ selected_leagues # <<>>
            /\ selected_outcomes # <<>> /\ Existing = <<>>) =>
            /\ pc \in {"load", "stopped"}
            /\ NothingDisplayed
            /\ (pc = "stopped" => output.msg = "no_data")
            /\ (pc = "load" => dfs = <<>>)

C3_Witness ==
    /\ pc = "stopped"
    /\ output.msg = "no_data"
    /\ Len(warnings) = 2
    /\ cache # <<>>

\* C4: a run in which no league or no outcome is selected stops at the prompt
\* before any file is loaded: up to and including that step no load is
\* attempted, the cache, the objects and the disk-read counts are unchanged,
\* and nothing is displayed.
C4_EmptySelectionStops ==
    [][/\ (pc \in {"start", "done", "stopped", "sidebar"}) =>
            /\ cache' = cache
            /\ diskReads' = diskReads
            /\ attempts' = <<>>
       /\ (pc = "sidebar" /\ (selected_leagues' = <<>> \/ selected_outcomes' = <<>>)) =>
            /\ pc' = "stopped"
            /\ output'.msg \in {"select_league", "select_outcome"}
            /\ heap' = heap
            /\ ~output'.ordered
            /\ output'.table.kind = "none"
            /\ ~output'.summaryShown]_vars

C4_Witness ==
    /\ pc = "stopped"
    /\ output.msg = "select_outcome"
    /\ selected_leagues # <<>>
    /\ cache # <<>>
    /\ attempts = <<>>

\* C5: every successful load returns the table parsed from the file; the
\* first one parses it, every later one is served from the cache, and no path
\* is ever parsed twice, whatever earlier runs did to the tables they got.
C5_CachedLoad ==
    /\ \A p \in AllPaths : diskReads[p] <= 1
    /\ (pc = "tag") =>
            /\ lastLoad.table = pd_read_csv(lastLoad.path)
            /\ heap[df] = pd_read_csv(lastLoad.path)
            /\ lastLoad.hit = ~lastLoad.first
            /\ diskReads[lastLoad.path] = 1

\* a load served from the cache, after an earlier run tagged the table it got
C5_Witness ==
    /\ pc = "tag"
    /\ lastLoad.hit
    /\ Cardinality(DOMAIN heap) >= 2
    /\ "league" \notin Range(lastLoad.table.cols)
    /\ Len(dfs) = 1

\* C6: a load of a path that does not exist raises: it returns no table, and
\* it leaves the cache, the objects and the disk-read counts as they were.
C6_NotFound ==
    [][(Len(attempts') > Len(attempts) /\ lastLoad'.path \notin disk.files) =>
            /\ lastLoad'.raised
            /\ lastLoad'.df = 0
            /\ lastLoad'.table = NoTable
            /\ cache' = cache
            /\ heap' = heap
            /\ diskReads' = diskReads
            /\ lastLoad'.path \notin DOMAIN cache']_vars

C6_Witness ==
    /\ lastLoad.raised
    /\ lastLoad.path \notin disk.files
    /\ cache # <<>>
    /\ Len(attempts) = 2

\* C10 as claimed: the object load_csv handed out is the same before and
\* after the merge.
C10_NoInPlaceMutation ==
    (lastLoad.df \in DOMAIN heap) => heap[lastLoad.df] = lastLoad.table

\* C10 as amended: the merge tags the very object load_csv handed out, but
\* that object is never the cache's: every cache entry holds the file's table,
\* untagged, before and after the merge.
C10_CacheUntouched ==
    /\ \A p \in DOMAIN cache : EntryTable(heap, cache[p]) = pd_read_csv(p)
    /\ \A i \in 1..Len(dfs) :
            /\ "league" \in Range(heap[dfs[i]].cols)
            /\ \A r \in 1..Len(heap[dfs[i]].rows) :
                    heap[dfs[i]].rows[r]["league"] = Existing[i]

C10_Witness ==
    /\ pc = "load"
    /\ lastLoad.hit
    /\ lastLoad.df \in Range(dfs)
    /\ heap[lastLoad.df] # lastLoad.table
    /\ EntryTable(heap, cache[lastLoad.path]) = lastLoad.table

----------------------------------------------------------------------------
(* The functions on their own: the input is drawn at the start, one step    *)
(* applies the function to it.                                              *)

SessionIdle ==
    /\ disk = [dirs |-> {}, files |-> {}]
    /\ cache = <<>>
    /\ heap = <<>>
    /\ diskReads = [p \in AllPaths |-> 0]
    /\ loads = {}
    /\ lastLoad = NoLoad
    /\ available_leagues = <<>>
    /\ selected_leagues = <<>>
    /\ analysis_type = "Stagione"
    /\ selected_outcomes = <<>>
    /\ idx = 1
    /\ df = 0
    /\ dfs = <<>>
    /\ data = NoTable
    /\ warnings = <<>>
    /\ attempts = <<>>
    /\ output = NoOutput

OutcomeSelections == OrderedSelections(Range(OUTCOMES), MaxSelected)

\* --- League Catalog Resolver

CatalogNames == {NamePool[i] : i \in 1..MaxDirNames}
BaseFileNames == {STAGIONI, "altro.csv", "note.txt"}

\* base directories: any subdirectories, any direct files, and in any
\* subdirectory possibly an analysis file
CatalogDisks ==
    {[dirs |-> ds,
      files |-> {Join(BASE_ANALYSIS_PATH, f) : f \in bf}
                \cup {Join(Join(BASE_ANALYSIS_PATH, n), STAGIONI) : n \in withFile}] :
        ds \in SUBSET CatalogNames, bf \in SUBSET BaseFileNames,
        withFile \in SUBSET CatalogNames}

InitCatalog ==
    /\ SessionIdle
    /\ pc = "call"
    /\ fnIn \in {d \in CatalogDisks :
                    \A f \in d.files : Len(f) = 3 => Name(Parent(f)) \in d.dirs}
    /\ fnOut = <<>>

CallCatalog ==
    /\ pc = "call"
    /\ fnOut' = get_available_leagues(fnIn, BASE_ANALYSIS_PATH)
    /\ pc' = "return"
    /\ UNCHANGED <<disk, cache, heap, diskReads, loads, lastLoad, available_leagues,
                   selected_leagues, analysis_type, selected_outcomes, idx, df, dfs,
                   data, warnings, attempts, output, fnIn>>

SpecCatalog == InitCatalog /\ [][CallCatalog]_vars

\* --- Column Orderer

ColumnPool == <<"round", "extra", "season", "over_25_percentage", "league",
                "over_25_count">>

InitOrder ==
    /\ SessionIdle
    /\ pc = "call"
    /\ fnIn \in [cols : OrderedSelections(Range(ColumnPool), MaxCols),
                 atype : {"Stagione", "Giornata"},
                 outcomes : OutcomeSelections]
    /\ fnOut = <<>>

CallOrder ==
    /\ pc = "call"
    /\ fnOut' = ColumnOrder(fnIn.cols, fnIn.atype, fnIn.outcomes)
    /\ pc' = "return"
    /\ UNCHANGED <<disk, cache, heap, diskReads, loads, lastLoad, available_leagues,
                   selected_leagues, analysis_type, selected_outcomes, idx, df, dfs,
                   data, warnings, attempts, output, fnIn>>

SpecOrder == InitOrder /\ [][CallOrder]_vars

\* --- Presentation Formatter and Summary Aggregator

\* rows as <<over_25_percentage, gg_percentage>>, in thousandths
RowPool == {<<50000, 33333>>, <<50000, 33334>>, <<10000, NaN>>,
            <<49996, 50125>>, <<NaN, 10000>>}

ColsMenu == {<<"season", "over_25_percentage", "gg_percentage">>,
             <<"over_25_percentage", "season">>,
             <<"season">>,
             <<>>}

MakeRow(cols, pair) ==
    [c \in Range(cols) |->
        IF c = "over_25_percentage" THEN pair[1]
        ELSE IF c = "gg_percentage" THEN pair[2]
        ELSE 2023]

Tables ==
    {[cols |-> cols, rows |-> [r \in 1..Len(pairs) |-> MakeRow(cols, pairs[r])]] :
        cols \in ColsMenu,
        pairs \in UNION {[1..n -> RowPool] : n \in 0..MaxRows}}

InitTable ==
    /\ SessionIdle
    /\ pc = "call"
    /\ fnIn \in [table : Tables, outcomes : OutcomeSelections]
    /\ fnOut = <<>>

CallRender ==
    /\ pc = "call"
    /\ fnOut' = render_table(fnIn.table, fnIn.outcomes)
    /\ pc' = "return"
    /\ UNCHANGED <<disk, cache, heap, diskReads, loads, lastLoad, available_leagues,
                   selected_leagues, analysis_type, selected_outcomes, idx, df, dfs,
                   data, warnings, attempts, output, fnIn>>

SpecRender == InitTable /\ [][CallRender]_vars

CallSummary ==
    /\ pc = "call"
    /\ fnOut' = compute_summary_metrics(fnIn.table, fnIn.outcomes)
    /\ pc' = "return"
    /\ UNCHANGED <<disk, cache, heap, diskReads, loads, lastLoad, available_leagues,
                   selected_leagues, analysis_type, selected_outcomes, idx, df, dfs,
                   data, warnings, attempts, output, fnIn>>

SpecSummary == InitTable /\ [][CallSummary]_vars

----------------------------------------------------------------------------
(* Properties of the functions *)

\* the base directory holds a CSV file directly
HasDirectCsv(d) ==
    \E f \in d.files : Len(f) = 2 /\ Name(f) \in {STAGIONI, GIORNATE, "altro.csv"}

\* C1: with at least one subdirectory the resolver returns one league per
\* subdirectory, keyed by its name and mapped to it, in the order of the names,
\* whatever CSV files lie in the base directory; with none but a direct CSV
\* file, the single league "default" mapped to the base directory; with
\* neither, the empty mapping.
C1_Catalog ==
    (pc = "return" /\ fnIn \in CatalogDisks) =>
        /\ (fnIn.dirs # {}) =>
                /\ Len(fnOut) = Cardinality(fnIn.dirs)
                /\ {fnOut[i][1] : i \in 1..Len(fnOut)} = fnIn.dirs
                /\ \A i \in 1..Len(fnOut) :
                        fnOut[i][2] = <<"data", fnOut[i][1]>>
                /\ \A i, j \in 1..Len(fnOut) :
                        i < j => StrLess(fnOut[i][1], fnOut[j][1])
        /\ (fnIn.dirs = {} /\ HasDirectCsv(fnIn)) =>
                fnOut = << <<"default", <<"data">> >> >>
        /\ (fnIn.dirs = {} /\ ~HasDirectCsv(fnIn)) => fnOut = <<>>

\* subdirectories together with CSV files in the base directory
C1_Witness ==
    /\ pc = "return"
    /\ fnIn \in CatalogDisks
    /\ Cardinality(fnIn.dirs) = 3
    /\ HasDirectCsv(fnIn)
    /\ Keys(fnOut) = <<"A", "AB", "B">>

\* the place of a column in the display order: the preferred columns by
\* their rank, the others after them by their place in the table
DisplayRank(c, cols, atype, outcomes) ==
    LET n == Len(outcomes)
        base == IF atype = "Giornata" THEN 3 ELSE 2
    IN IF c = "league" THEN 1
       ELSE IF c = "season" THEN 2
       ELSE IF c = "round" /\ atype = "Giornata" THEN 3
       ELSE IF \E i \in 1..n : c = outcomes[i] \o "_count"
            THEN base + (CHOOSE i \in 1..n : c = outcomes[i] \o "_count")
       ELSE IF \E i \in 1..n : c = outcomes[i] \o "_percentage"
            THEN base + n + (CHOOSE i \in 1..n : c = outcomes[i] \o "_percentage")
       ELSE base + 2 * n + IndexOf(cols, c)

Nearest2(v) == {w \in {10 * (v \div 10), 10 * (v \div 10) + 10} :
                    2 * (IF w > v THEN w - v ELSE v - w) <= 10}

\* C8: in a non-empty table a cell is highlighted exactly when its column is
\* the percentage column of a selected outcome and its value, rounded to two
\* decimals, equals the maximum of the rounded column; ties are all
\* highlighted, other columns never.
C8_Highlight ==
    (pc = "return" /\ "kind" \in DOMAIN fnOut /\ ~IsEmpty(fnIn.table)) =>
        LET t == fnIn.table
            shown == fnOut.table
            selectedPct == {fnIn.outcomes[i] \o "_percentage" : i \in 1..Len(fnIn.outcomes)}
        IN /\ fnOut.kind = "table"
           /\ shown.cols = t.cols
           /\ Len(shown.rows) = Len(t.rows)
           /\ \A r \in 1..Len(t.rows), c \in Range(t.cols) :
                /\ (c \in {"over_25_percentage", "gg_percentage"} /\ t.rows[r][c] # NaN)
                        => shown.rows[r][c] \in Nearest2(t.rows[r][c])
                /\ (c \in {"over_25_percentage", "gg_percentage"} /\ t.rows[r][c] = NaN)
                        => shown.rows[r][c] = NaN
                /\ (<<r, c>> \in fnOut.highlighted) <=>
                        /\ c \in selectedPct
                        /\ shown.rows[r][c] # NaN
                        /\ \A k \in 1..Len(t.rows) : shown.rows[k][c] <= shown.rows[r][c]

\* the example of the claim: [50.0, 50.0, 10.0] in a selected column, next to
\* the percentage column of an outcome that is not selected
C8_Witness ==
    /\ pc = "return"
    /\ "kind" \in DOMAIN fnOut
    /\ fnIn.outcomes = <<"over_25">>
    /\ fnIn.table.cols = <<"season", "over_25_percentage", "gg_percentage">>
    /\ Column(fnIn.table, "over_25_percentage") = <<50000, 50000, 10000>>
    /\ fnOut.highlighted = {<<1, "over_25_percentage">>, <<2, "over_25_percentage">>}

\* the selected outcomes whose percentage column is in the table
Summarised == {o \in Range(fnIn.outcomes) : (o \o "_percentage") \in Range(fnIn.table.cols)}

SummaryKeys ==
    /\ fnOut.none <=> (IsEmpty(fnIn.table) \/ Summarised = {})
    /\ fnOut.none => fnOut.items = <<>>
    /\ ~fnOut.none =>
            /\ {fnOut.items[i][1] : i \in 1..Len(fnOut.items)} = Summarised
            /\ Len(fnOut.items) = Cardinality(Summarised)

\* C9 as claimed: the keys are the selected outcomes with a column, each
\* mapped to the mean of its column; None exactly for an empty table or no
\* matching column.
C9_SummaryExactMean ==
    (pc = "return" /\ "none" \in DOMAIN fnOut) =>
        /\ SummaryKeys
        /\ \A i \in 1..Len(fnOut.items) :
                LET vals == Present(fnIn.table, fnOut.items[i][1] \o "_percentage")
                IN vals # <<>> => fnOut.items[i][2] * Len(vals) = SumSeq(vals)

\* C9 as amended: each key is mapped to the mean of the non-missing values of
\* its column rounded to two decimals (missing when the column has no value).
C9_SummaryRoundedMean ==
    (pc = "return" /\ "none" \in DOMAIN fnOut) =>
        /\ SummaryKeys
        /\ \A i \in 1..Len(fnOut.items) :
                LET vals == Present(fnIn.table, fnOut.items[i][1] \o "_percentage")
                    v == fnOut.items[i][2]
                    n == Len(vals)
                    diff == v * n - SumSeq(vals)
                IN IF vals = <<>> THEN v = NaN
                   ELSE /\ v % 10 = 0
                        /\ 2 * (IF diff < 0 THEN -diff ELSE diff) <= 10 * n

\* the example of the claim: gg selected without a gg column, and a mean
\* that has more than two decimals
C9_Witness ==
    /\ pc = "return"
    /\ "none" \in DOMAIN fnOut
    /\ fnIn.outcomes = <<"over_25", "gg">>
    /\ fnIn.table.cols = <<"over_25_percentage", "season">>
    /\ Column(fnIn.table, "over_25_percentage") = <<50000, 50000, 10000>>
    /\ fnOut = [none |-> FALSE, items |-> << <<"over_25", 36670>> >>]

====
